---- MODULE Spec2Model ----
(***************************************************************************)
(* Flight planner: the waypoint model (flight_planner/flightdef.py) and    *)
(* the route editor driven by the map and altitude-timeseries mouse        *)
(* handlers (flight_planner/gui.py).                                       *)
(*                                                                         *)
(* Geometry.  A position is a (lon, lat) pair on an integer grid of        *)
(* kilometre offsets.  greatcircle delegates to cartopy's geodesic solver, *)
(* which is not part of the repository; it is modelled by the rectilinear  *)
(* metric of the grid, so distances and tolerances are both in km.  The    *)
(* airport table keeps the codes, the order and the altitudes of           *)
(* user_config.airports and places the two airports on the grid.           *)
(*                                                                         *)
(* Python strings are TLA+ strings, Python lists are sequences (index 1 is *)
(* Python's index 0; the events carry Python's 0-based indices), and None  *)
(* is a sentinel string no airport code equals.                            *)
(***************************************************************************)
EXTENDS Integers, Sequences, FiniteSets, TLC

VARIABLES
    waypoints,   \* PlannerGUI.flightdef.waypoints
    fdname,      \* PlannerGUI.flightdef.name
    drag_i,      \* PlannerGUI.drag_i (-1: attribute not yet set)
    drag_cids,   \* PlannerGUI.drag_cids: the handlers connected for a drag
    ev,          \* history: the last event delivered and what its handler did
    nev,         \* history: mouse events since the route was loaded or cleared
    lk,          \* a direct call of lock_WayPoint: input, tolerance, results
    rt,          \* a route written with __repr__ and read back: input, text, result
    objs,        \* FlightDef objects and the list objects their waypoints refer to
    cv,          \* a direct call of the unit conversions: input, results
    hv           \* a harvest form: its stop flag and its worker threads

vars == <<waypoints, fdname, drag_i, drag_cids, ev, nev, lk, rt, objs, cv, hv>>

----------------------------------------------------------------------------
(* Configuration and constants                                             *)

None == "<None>"

Abs(x) == IF x < 0 THEN -x ELSE x

\* gui.py:32, the tolerance every editor path passes to the locking helpers
wplock == 10

\* flightdef.py:92, the default tolerance of lock_WayPoint
default_wplock == 100

\* gui.py:620, the altitude of the first waypoint of a route
first_alt == 1000

\* gui.py:598 (and gui.py:470): the label alphabet
labs ==
    << "A", "B", "C", "D", "E", "F", "G", "H", "I", "J", "K", "L", "M",
       "N", "O", "P", "Q", "R", "S", "T", "U", "V", "W", "X", "Y", "Z",
       "0", "1", "2", "3", "4", "5", "6", "7", "8", "9" >>

\* user_config.airports, in registration (dict insertion) order
airports ==
    << [code |-> "CRAN", lon |-> 0,  lat |-> 0, alt |-> 358],
       [code |-> "INN",  lon |-> 40, lat |-> 0, alt |-> 1906] >>

airport_codes == {airports[k].code : k \in 1..Len(airports)}

\* airports[airport]: the entry registered under a code
airport_entry(airport) ==
    airports[CHOOSE k \in 1..Len(airports) : airports[k].code = airport]

----------------------------------------------------------------------------
(* flightdef.py: WayPoint and the locking helpers                          *)

WayPoint(lon, lat, alt, name, desc, legtype) ==
    [lon |-> lon, lat |-> lat, alt |-> alt, name |-> name, desc |-> desc,
     legtype |-> legtype]

pt(wp) == <<wp.lon, wp.lat>>

greatcircle(pt0, pt1) ==
    Abs(pt0[1] - pt1[1]) + Abs(pt0[2] - pt1[2])

WayPoint_from_airport_keeps_nothing(airport) ==
    LET a == airport_entry(airport)
    IN  WayPoint(a.lon, a.lat, 0, "NONAME", "", "transit")

\* WayPoint(a[0], a[1], alt=a[2], name=airport): desc and legtype default
WayPoint_from_airport(airport) ==
    LET a == airport_entry(airport)
    IN  WayPoint(a.lon, a.lat, a.alt, airport, "", "transit")

RECURSIVE airport_scan(_, _, _)
airport_scan(waypoint, tol, k) ==
    IF k > Len(airports) THEN None
    ELSE IF greatcircle(pt(waypoint), <<airports[k].lon, airports[k].lat>>) < tol
         THEN airports[k].code
         ELSE airport_scan(waypoint, tol, k + 1)

RECURSIVE airport_scan_closed(_, _, _)
airport_scan_closed(waypoint, tol, k) ==
    IF k > Len(airports) THEN None
    ELSE IF greatcircle(pt(waypoint), <<airports[k].lon, airports[k].lat>>) <= tol
         THEN airports[k].code
         ELSE airport_scan_closed(waypoint, tol, k + 1)

is_near_airport_closed(waypoint, tol) == airport_scan_closed(waypoint, tol, 1)

\* for airport, pt in airports.items(): if dist < wplock: return airport
is_near_airport(waypoint, tol) == airport_scan(waypoint, tol, 1)

\* Python truth of the value is_near_airport returns
truthy(code) == code # None /\ code # ""

lock_WayPoint_keeps_legtype(waypoint, tol) ==
    LET near_airport == is_near_airport(waypoint, tol)
    IN  IF truthy(near_airport)
        THEN [WayPoint_from_airport(near_airport) EXCEPT !.legtype = waypoint.legtype]
        ELSE waypoint

lock_WayPoint_notes_origin(waypoint, tol) ==
    LET near_airport == is_near_airport(waypoint, tol)
    IN  IF truthy(near_airport)
        THEN [WayPoint_from_airport(near_airport) EXCEPT !.desc = waypoint.name]
        ELSE waypoint

lock_WayPoint(waypoint, tol) ==
    LET near_airport == is_near_airport(waypoint, tol)
    IN  IF truthy(near_airport)
        THEN WayPoint_from_airport(near_airport)
        ELSE waypoint

locked_WayPoint(lon, lat, alt, name, desc, legtype, tol) ==
    lock_WayPoint(WayPoint(lon, lat, alt, name, desc, legtype), tol)

----------------------------------------------------------------------------
(* Bounds and inputs of the model                                          *)

\* mouse events delivered since the route was last loaded or cleared
MaxEvents == 2

\* the clicks hit the dots and legs of the first MaxHit waypoints
MaxHit == 3

\* positions a click or a pointer motion can deliver (dataxy_to_lonlat)
ClickPoints == { <<5, 0>>, <<20, 0>>, <<24, 0>> }

\* event.ydata of a middle click on the altitude timeseries
InsertAlts == { 1504 }

\* event.ydata of a pointer motion over the altitude timeseries
DragAlts == { 1005, 1016 }

\* the fraction of the clicked leg _interp computes from event.xdata
Fracs == { 0, 1 }

\* the contents of the .dat files a load can read: the name line and the
\* fields of each waypoint line, split on ',' and stripped
science_file ==
    [name  |-> "MMDDa",
     lines |-> << <<"AMMDDa", 20, 0, 1000, "science", "survey">>,
                  <<"CRAN", 0, 0, 358, "transit", "">> >>]

full_file ==
    [name  |-> "MMDDa",
     lines |-> [k \in 1..Len(labs) |-> <<"AMMDDa", 20, k - 1, 1000, "transit", "">>]]

\* one waypoint more than the alphabet has symbols
over_file ==
    [name  |-> "MMDDa",
     lines |-> [k \in 1..(Len(labs) + 1) |-> <<"WPT", 20, k - 1, 1000, "transit", "">>]]

\* a route that comes back to its first waypoint, by an airport
return_file ==
    [name  |-> "MMDDa",
     lines |-> << <<"START", 24, 0, 1000, "transit", "">>,
                  <<"FIELD", 0, 0, 358, "transit", "">>,
                  <<"BACK", 24, 0, 1000, "transit", "">>,
                  <<"NEXT", 20, 0, 1000, "transit", "">> >>]

\* a route whose last waypoint has a leg-type without a speed
ferry_file ==
    [name  |-> "MMDDa",
     lines |-> << <<"AMMDDa", 20, 0, 1000, "transit", "">>,
                  <<"BMMDDa", 24, 0, 1000, "ferry", "">> >>]

\* a route whose first leg has a leg-type without a speed
ferry_leg_file ==
    [name  |-> "MMDDa",
     lines |-> << <<"AMMDDa", 20, 0, 1000, "ferry", "">>,
                  <<"BMMDDa", 24, 0, 1000, "transit", "">> >>]

\* a file whose second line lacks the description field
short_file ==
    [name  |-> "MMDDa",
     lines |-> << <<"AMMDDa", 20, 0, 1000, "transit", "">>,
                  <<"BMMDDa", 24, 0, 1000, "transit">> >>]

\* a file whose line has a comma in the description, hence seven fields
long_file ==
    [name  |-> "MMDDa",
     lines |-> << <<"AMMDDa", 20, 0, 1000, "transit", "survey", "north">> >>]

\* three waypoints close to one another, away from every airport
snap_file ==
    [name  |-> "MMDDa",
     lines |-> << <<"AMMDDa", 24, 0, 1000, "transit", "">>,
                  <<"BMMDDa", 20, 0, 1000, "transit", "">>,
                  <<"CMMDDa", 15, 0, 1000, "transit", "">> >>]

Files ==
    { science_file, full_file, over_file, return_file, ferry_file, ferry_leg_file,
      short_file, long_file, snap_file }

\* what the name box and the text panel hold when Update FlightDef is pressed
PanelNames == { "MMDDa", "MMDDb" }

Panels == { <<>>, short_file.lines, long_file.lines }

----------------------------------------------------------------------------
(* Python strings and number formats.  Where a route is written and read   *)
(* back, lon, lat and alt are counted in ten-thousandths, one decimal more *)
(* than the finest format.                                                 *)

digits == "0123456789"

digit_str(d) == SubSeq(digits, d + 1, d + 1)

is_digit(c) == \E d \in 0..9 : digit_str(d) = c

digit_val(c) == CHOOSE d \in 0..9 : digit_str(d) = c

\* str(n) of a natural number
RECURSIVE nat_str(_)
nat_str(n) == IF n < 10 THEN digit_str(n) ELSE nat_str(n \div 10) \o digit_str(n % 10)

\* int(s) of a string of digits; the empty string counts 0
RECURSIVE nat_val(_)
nat_val(s) ==
    IF Len(s) = 0 THEN 0
    ELSE 10 * nat_val(SubSeq(s, 1, Len(s) - 1)) + digit_val(SubSeq(s, Len(s), Len(s)))

RECURSIVE Pow10(_)
Pow10(n) == IF n = 0 THEN 1 ELSE 10 * Pow10(n - 1)

\* str.ljust, str.rjust, str.zfill
RECURSIVE ljust(_, _)
ljust(s, w) == IF Len(s) >= w THEN s ELSE ljust(s \o " ", w)

RECURSIVE rjust(_, _)
rjust(s, w) == IF Len(s) >= w THEN s ELSE rjust(" " \o s, w)

RECURSIVE zfill(_, _)
zfill(s, w) == IF Len(s) >= w THEN s ELSE zfill("0" \o s, w)

\* str.strip (blanks)
RECURSIVE lstrip(_)
lstrip(s) ==
    IF Len(s) > 0 /\ SubSeq(s, 1, 1) = " " THEN lstrip(SubSeq(s, 2, Len(s))) ELSE s

RECURSIVE rstrip(_)
rstrip(s) ==
    IF Len(s) > 0 /\ SubSeq(s, Len(s), Len(s)) = " "
    THEN rstrip(SubSeq(s, 1, Len(s) - 1))
    ELSE s

strip(s) == lstrip(rstrip(s))

\* the positions of the separator in s
sep_at(s, sep) == {k \in 1..Len(s) : SubSeq(s, k, k) = sep}

\* str.split(sep), sep one character: the fields between the separators
split(s, sep) ==
    LET P == sep_at(s, sep)
        n == Cardinality(P)
        pos(j) == IF j = 0 THEN 0
                  ELSE IF j = n + 1 THEN Len(s) + 1
                  ELSE CHOOSE k \in P : Cardinality({m \in P : m < k}) = j - 1
    IN  [j \in 1..(n + 1) |-> SubSeq(s, pos(j - 1) + 1, pos(j) - 1)]

\* sep.join(strs)
RECURSIVE join(_, _)
join(sep, strs) ==
    IF Len(strs) = 0 THEN ""
    ELSE IF Len(strs) = 1 THEN strs[1]
    ELSE strs[1] \o sep \o join(sep, Tail(strs))

round_toward_zero(v, unit) == v \div unit

\* the count of units nearest to v, ties to the even count
round_half_even(v, unit) ==
    LET q == v \div unit
        r == v % unit
    IN  IF 2 * r < unit THEN q
        ELSE IF 2 * r > unit THEN q + 1
        ELSE IF q % 2 = 0 THEN q ELSE q + 1

\* '{:<width>.<nd>f}', with the blank sign flag or without: nd decimals,
\* a minus sign kept even when the digits round to zero, right-justified
format_f(v, width, nd, blank) ==
    LET m == round_half_even(Abs(v), Pow10(4 - nd))
        whole == nat_str(m \div Pow10(nd))
        frac == IF nd > 0 THEN "." \o zfill(nat_str(m % Pow10(nd)), nd) ELSE ""
        sign == IF v < 0 THEN "-" ELSE IF blank THEN " " ELSE ""
    IN  rjust(sign \o whole \o frac, width)

\* the numeral without its sign
unsigned(tok) ==
    IF Len(tok) > 0 /\ SubSeq(tok, 1, 1) \in {"-", "+"}
    THEN SubSeq(tok, 2, Len(tok))
    ELSE tok

all_digits(s) == \A k \in 1..Len(s) : is_digit(SubSeq(s, k, k))

\* float(tok) raises ValueError unless tok is a decimal numeral (exponents,
\* inf and nan are not written by the formats above)
float_raises(tok) ==
    LET parts == split(unsigned(tok), ".")
    IN  ~ /\ Len(parts) <= 2
          /\ \A k \in 1..Len(parts) : all_digits(parts[k])
          /\ \E k \in 1..Len(parts) : Len(parts[k]) > 0

\* float(tok), in ten-thousandths
float(tok) ==
    LET parts == split(unsigned(tok), ".")
        frac == IF Len(parts) = 2 THEN SubSeq(parts[2] \o "0000", 1, 4) ELSE "0000"
        m == 10000 * nat_val(parts[1]) + nat_val(frac)
    IN  IF SubSeq(tok, 1, 1) = "-" THEN -m ELSE m

\* name[:6]
name6(name) == SubSeq(name, 1, IF Len(name) < 6 THEN Len(name) ELSE 6)

\* WayPoint.__repr__
WayPoint_repr(wp) ==
    join(", ", << ljust(name6(wp.name), 6),
                  format_f(wp.lon, 7, 3, TRUE),
                  format_f(wp.lat, 6, 3, TRUE),
                  format_f(wp.alt, 5, 0, FALSE),
                  wp.legtype,
                  wp.desc >>)

\* FlightDef.__repr__
FlightDef_repr(name, wps) ==
    join("\n", <<name>> \o [k \in 1..Len(wps) |-> WayPoint_repr(wps[k])])

\* [a.strip() for a in s.split(',')]
stripped_vals(s) ==
    LET parts == split(s, ",")
    IN  [k \in 1..Len(parts) |-> strip(parts[k])]

\* WayPoint_from_repr raises IndexError on a line of fewer than six fields
short_vals(vals) == Len(vals) < 6

\* WayPoint_from_repr raises: IndexError, or ValueError from float
from_repr_raises(s) ==
    LET vals == stripped_vals(s)
    IN  \/ short_vals(vals)
        \/ \E k \in 2..4 : float_raises(vals[k])

\* the fields of a line with the numerals read
read_vals(s) ==
    LET vals == stripped_vals(s)
    IN  << vals[1], float(vals[2]), float(vals[3]), float(vals[4]), vals[5], vals[6] >>

\* flightdef.py:339-344: the name line, then the lines of the waypoints
dat_file(text) ==
    LET ls == split(text, "\n")
    IN  [name |-> ls[1], texts |-> Tail(ls)]

dat_raises(text) == \E k \in 1..Len(dat_file(text).texts) : from_repr_raises(dat_file(text).texts[k])

read_dat(text) ==
    [name  |-> dat_file(text).name,
     lines |-> [k \in 1..Len(dat_file(text).texts) |-> read_vals(dat_file(text).texts[k])]]

----------------------------------------------------------------------------
(* flightdef.py: FlightDef                                                 *)

\* vals = [a.strip() for a in s.split(',')]; fields name, lon, lat, alt,
\* legtype, desc
WayPoint_from_repr(vals) ==
    WayPoint(vals[2], vals[3], vals[4], vals[1], vals[6], vals[5])

\* loaddat: the name line, then one WayPoint per line
loaddat(file) ==
    [name      |-> file.name,
     waypoints |-> [k \in 1..Len(file.lines) |-> WayPoint_from_repr(file.lines[k])]]

legs_closed(wps) ==
    [k \in 1..Len(wps) |-> <<wps[k], wps[(k % Len(wps)) + 1]>>]

\* FlightDef.legs
legs(wps) ==
    [k \in 1..(IF Len(wps) = 0 THEN 0 ELSE Len(wps) - 1) |-> <<wps[k], wps[k + 1]>>]

\* user_config.py:42-49, the entry of aircrafts[0] ('FAAM'): knots
legtype_spds == [transit |-> 270, science |-> 194, special |-> 170]

\* the default speed table of FlightDef.__init__
default_legtype_spds == [transit |-> 100]

\* km2nm, then the division by the speed: the time in seconds (the code
\* keeps hours as a float)
leg_seconds(km, kts) == (km * 3600000) \div (1852 * kts)

\* FlightDef.leg_dist
leg_dist(leg) == greatcircle(pt(leg[1]), pt(leg[2]))

leg_time_of_end(spds, leg) ==
    IF leg[2].legtype \in DOMAIN spds
    THEN [raised |-> FALSE, time |-> leg_seconds(leg_dist(leg), spds[leg[2].legtype])]
    ELSE [raised |-> TRUE, time |-> 0]

\* FlightDef.leg_time: the lookup spds[leg[0].legtype] raises KeyError
leg_time(spds, leg) ==
    IF leg[1].legtype \in DOMAIN spds
    THEN [raised |-> FALSE, time |-> leg_seconds(leg_dist(leg), spds[leg[1].legtype])]
    ELSE [raised |-> TRUE, time |-> 0]

\* the sum of the times of the legs from leg k on
RECURSIVE sum_times(_, _, _)
sum_times(spds, ls, k) ==
    IF k > Len(ls) THEN [raised |-> FALSE, time |-> 0]
    ELSE LET t == leg_time(spds, ls[k])
             rest == sum_times(spds, ls, k + 1)
         IN  IF t.raised \/ rest.raised
             THEN [raised |-> TRUE, time |-> 0]
             ELSE [raised |-> FALSE, time |-> t.time + rest.time]

\* FlightDef.total_time
total_time(spds, wps) == sum_times(spds, legs(wps), 1)

\* FlightDef.total_summary and FlightDef.__str__ format the total time
total_summary_raises(spds, wps) == total_time(spds, wps).raised

\* PlannerGUI.update_display, run at the end of every handler that changes
\* the route: update_info shows the summary of the new route
update_display_raises(wps) == total_summary_raises(legtype_spds, wps)

----------------------------------------------------------------------------
(* Python list methods on the waypoint list, i a Python (0-based) index    *)

list_insert(wps, i, wp) ==
    SubSeq(wps, 1, i) \o <<wp>> \o SubSeq(wps, i + 1, Len(wps))

list_pop(wps, i) ==
    SubSeq(wps, 1, i) \o SubSeq(wps, i + 2, Len(wps))

list_set(wps, i, wp) == [wps EXCEPT ![i + 1] = wp]

in_range(wps, i) == 0 <= i /\ i < Len(wps)

----------------------------------------------------------------------------
(* gui.py: the mouse-button handler                                        *)

Event(op, i, lon, lat, y, raised, name) ==
    [op |-> op, i |-> i, lon |-> lon, lat |-> lat, y |-> y, raised |-> raised,
     name |-> name]

npts_counts_all(wps) == Len(wps)

\* len(waypoints) - np.sum([is_near_airport(wp) is not None for wp in ...])
npts(wps) ==
    Len(wps) - Cardinality({k \in 1..Len(wps) :
                               is_near_airport(wps[k], wplock) # None})

\* 'ABC...789'[npts] raises IndexError when npts is past the alphabet
label_raises(wps) == npts(wps) >= Len(labs)

\* a variant of new_wpname for comparison: every new waypoint takes the first symbol
new_wpname_first(wps, name) == labs[1] \o name

new_wpname(wps, name) == labs[npts(wps) + 1] \o name

lons(wps) == [k \in 1..Len(wps) |-> wps[k].lon]

lats(wps) == [k \in 1..Len(wps) |-> wps[k].lat]

\* _interp, frac being (newx - xarr[i]) / (xarr[i+1] - xarr[i])
interp(i, frac, yarr) == yarr[i + 1] + frac * (yarr[i + 2] - yarr[i + 1])

\* the branch of fig_button_press_callback an event takes
gesture(inaxes, button, dcontains, lcontains, di, wps) ==
    IF inaxes = "ax"
    THEN IF dcontains
         THEN IF button = 1
              THEN IF truthy(is_near_airport(wps[di + 1], wplock))
                   THEN "append_dest" ELSE "start_drag"
              ELSE IF button = 3 THEN "delete" ELSE "none"
         ELSE IF button = 1 THEN "append"
         ELSE IF lcontains /\ button = 2 THEN "insert"
         ELSE "none"
    ELSE IF dcontains
         THEN IF button = 1 THEN "start_ts_drag"
              ELSE IF button = 3 THEN "ts_delete" ELSE "none"
         ELSE IF lcontains /\ button = 2 THEN "ts_insert"
         ELSE "none"

append_hints_no_first(wps, wpname) ==
    IF Len(wps) = 0
    THEN [alt |-> 0, legtype |-> "transit"]
    ELSE [alt |-> wps[Len(wps)].alt, legtype |-> wps[Len(wps)].legtype]

\* a variant of append_hints for comparison: the baseline is given on the empty route only
append_hints_empty_only(wps, wpname) ==
    IF Len(wps) = 0
    THEN [alt |-> first_alt, legtype |-> "transit"]
    ELSE [alt |-> wps[Len(wps)].alt, legtype |-> wps[Len(wps)].legtype]

\* gui.py:619-624: the altitude and leg-type an appended waypoint is given
append_hints(wps, wpname) ==
    IF SubSeq(wpname, 1, 1) = "A"
    THEN [alt |-> first_alt, legtype |-> "transit"]
    ELSE [alt |-> wps[Len(wps)].alt, legtype |-> wps[Len(wps)].legtype]

\* gui.py:618-628
map_append(wps, lon, lat, wpname) ==
    LET h == append_hints(wps, wpname)
    IN  Append(wps, locked_WayPoint(lon, lat, h.alt, wpname, "", h.legtype, wplock))

\* gui.py:606-613
dest_append(wps, lon, lat, wpname) ==
    LET last == wps[Len(wps)]
    IN  Append(wps, locked_WayPoint(lon, lat, last.alt, wpname, "",
                                    last.legtype, wplock))

map_insert_at_end(wps, prevlegi, lon, lat, wpname) ==
    LET prev == wps[prevlegi + 1]
    IN  Append(wps, locked_WayPoint(lon, lat, prev.alt, wpname, "",
                                    prev.legtype, wplock))

\* gui.py:629-637
map_insert(wps, prevlegi, lon, lat, wpname) ==
    LET prev == wps[prevlegi + 1]
    IN  list_insert(wps, prevlegi + 1,
                    locked_WayPoint(lon, lat, prev.alt, wpname, "",
                                    prev.legtype, wplock))

\* gui.py:647-657: desc and legtype are locked_WayPoint's defaults
ts_insert(wps, i, frac, ydata, wpname) ==
    LET lon == interp(i, frac, lons(wps))
        lat == interp(i, frac, lats(wps))
    IN  list_insert(wps, i + 1,
                    locked_WayPoint(lon, lat, ydata, wpname, "", "transit",
                                    wplock))

\* the waypoint list the handler leaves, the label having been computed
press_waypoints(op, wps, i, lon, lat, frac, ydata, wpname) ==
    CASE op = "append"      -> map_append(wps, lon, lat, wpname)
      [] op = "append_dest" -> dest_append(wps, lon, lat, wpname)
      [] op = "insert"      -> map_insert(wps, i, lon, lat, wpname)
      [] op = "ts_insert"   -> ts_insert(wps, i, frac, ydata, wpname)
      [] op = "delete"      -> list_pop(wps, i)
      [] op = "ts_delete"   -> list_pop(wps, i)
      [] OTHER              -> wps

\* start_drag / start_ts_drag: the two handlers connected
drag_handlers(op) ==
    IF op = "start_drag" THEN <<"drag_update", "end_drag">>
    ELSE <<"ts_drag_update", "end_ts_drag">>

fig_button_press_callback(inaxes, button, dcontains, di, lcontains, li, lon, lat, frac, ydata) ==
    LET op == gesture(inaxes, button, dcontains, lcontains, di, waypoints)
        i  == IF dcontains THEN di ELSE IF lcontains THEN li ELSE -1
    IN  /\ nev' = nev + 1
        /\ UNCHANGED <<fdname, lk, rt, objs, cv, hv>>
        /\ IF label_raises(waypoints)
           THEN /\ ev' = Event(op, i, lon, lat, ydata, TRUE, None)
                /\ UNCHANGED <<waypoints, drag_i, drag_cids>>
           ELSE LET wpname == new_wpname(waypoints, fdname)
                IN  /\ ev' = Event(op, i, lon, lat, ydata, FALSE, wpname)
                    /\ waypoints' = press_waypoints(op, waypoints, i, lon, lat,
                                                    frac, ydata, wpname)
                    /\ IF op \in {"start_drag", "start_ts_drag"}
                       THEN /\ drag_i' = di
                            /\ drag_cids' = drag_handlers(op)
                       ELSE UNCHANGED <<drag_i, drag_cids>>

----------------------------------------------------------------------------
(* gui.py: the drag handlers                                               *)

\* gui.py:714-717: every other waypoint in turn; a match moves the candidate
RECURSIVE snap_from(_, _, _, _)
snap_from(p, wps, k, skip) ==
    IF k > Len(wps) THEN p
    ELSE IF k - 1 # skip /\ greatcircle(p, pt(wps[k])) < wplock
         THEN snap_from(pt(wps[k]), wps, k + 1, skip)
         ELSE snap_from(p, wps, k + 1, skip)

RECURSIVE snap_first_from(_, _, _, _)
snap_first_from(p, wps, k, skip) ==
    IF k > Len(wps) THEN p
    ELSE IF k - 1 # skip /\ greatcircle(p, pt(wps[k])) < wplock
         THEN pt(wps[k])
         ELSE snap_first_from(p, wps, k + 1, skip)

snap_first(p, wps, skip) == snap_first_from(p, wps, 1, skip)

snap(p, wps, skip) == snap_from(p, wps, 1, skip)

dragged_at_end(wps, i, lon, lat) ==
    LET p == snap(<<lon, lat>>, wps, i)
        w == wps[i + 1]
    IN  list_set(wps, Len(wps) - 1,
                 locked_WayPoint(p[1], p[2], w.alt, w.name, w.desc, w.legtype,
                                 wplock))

\* gui.py:712-724
dragged(wps, i, lon, lat) ==
    LET p == snap(<<lon, lat>>, wps, i)
        w == wps[i + 1]
    IN  list_set(wps, i,
                 locked_WayPoint(p[1], p[2], w.alt, w.name, w.desc, w.legtype,
                                 wplock))

round_alts_down(val, base) == base * (val \div base)

\* base * round(float(val) / base), Python's round: ties go to the even
round_alts(val, base) ==
    LET q == val \div base
        r == val % base
    IN  IF 2 * r < base THEN base * q
        ELSE IF 2 * r > base THEN base * (q + 1)
        ELSE IF q % 2 = 0 THEN base * q ELSE base * (q + 1)

\* a variant of ts_dragged for comparison: the replacement is built without locking
ts_dragged_unlocked(wps, i, ydata) ==
    LET w == wps[i + 1]
    IN  list_set(wps, i, WayPoint(w.lon, w.lat, round_alts(ydata, 10), w.name,
                                  w.desc, w.legtype))

\* gui.py:747-754
ts_dragged(wps, i, ydata) ==
    LET w == wps[i + 1]
    IN  list_set(wps, i,
                 locked_WayPoint(w.lon, w.lat, round_alts(ydata, 10), w.name,
                                 w.desc, w.legtype, wplock))

connected(handler) == \E k \in 1..Len(drag_cids) : drag_cids[k] = handler

\* where: "none" when the event carries no data position (the handler
\* returns), "out" when the position is not strictly within the axes limits
\* (lon, lat stay unbound and the handler fails on their first use), "in"
\* otherwise; with a stale drag_i the handler fails on waypoints[drag_i].
\* The event records index -1 when the handler returned without acting.
drag_update(where, lon, lat) ==
    /\ connected("drag_update")
    /\ nev' = nev + 1
    /\ UNCHANGED <<fdname, drag_i, drag_cids, lk, rt, objs, cv, hv>>
    /\ IF where = "in" /\ in_range(waypoints, drag_i)
       THEN /\ ev' = Event("drag_update", drag_i, lon, lat, 0, FALSE, None)
            /\ waypoints' = dragged(waypoints, drag_i, lon, lat)
       ELSE /\ ev' = Event("drag_update", IF where = "none" THEN -1 ELSE drag_i,
                           lon, lat, 0, where # "none", None)
            /\ UNCHANGED waypoints

\* inside: the event carries an altitude strictly within the axes limits;
\* otherwise the handler does nothing
ts_drag_update(inside, ydata) ==
    /\ connected("ts_drag_update")
    /\ nev' = nev + 1
    /\ UNCHANGED <<fdname, drag_i, drag_cids, lk, rt, objs, cv, hv>>
    /\ IF inside /\ in_range(waypoints, drag_i)
       THEN /\ ev' = Event("ts_drag_update", drag_i, 0, 0, ydata, FALSE, None)
            /\ waypoints' = ts_dragged(waypoints, drag_i, ydata)
       ELSE /\ ev' = Event("ts_drag_update", IF inside THEN drag_i ELSE -1,
                           0, 0, ydata, inside, None)
            /\ UNCHANGED waypoints

end_drag_leaves_connected ==
    /\ connected("end_drag")
    /\ nev' = nev + 1
    /\ ev' = Event("end_drag", drag_i, 0, 0, 0, FALSE, None)
    /\ UNCHANGED <<waypoints, fdname, drag_i, drag_cids, lk, rt, objs, cv, hv>>

\* gui.py:727-730: both handlers are disconnected; drag_i stays
end_drag ==
    /\ connected("end_drag")
    /\ nev' = nev + 1
    /\ drag_cids' = <<>>
    /\ ev' = Event("end_drag", drag_i, 0, 0, 0, FALSE, None)
    /\ UNCHANGED <<waypoints, fdname, drag_i, lk, rt, objs, cv, hv>>

end_ts_drag ==
    /\ connected("end_ts_drag")
    /\ nev' = nev + 1
    /\ drag_cids' = <<>>
    /\ ev' = Event("end_ts_drag", drag_i, 0, 0, 0, FALSE, None)
    /\ UNCHANGED <<waypoints, fdname, drag_i, lk, rt, objs, cv, hv>>

----------------------------------------------------------------------------
(* gui.py: the buttons of the flight-definition panel                      *)

\* loaddat on a file: whether it raises, on a short line or on printing the
\* new route (the printed form holds the summary), and the route it returns
loaddat_result(file) ==
    LET raised == \/ \E k \in 1..Len(file.lines) : short_vals(file.lines[k])
                  \/ total_summary_raises(legtype_spds, loaddat(file).waypoints)
    IN  [raised |-> raised,
         fd     |-> IF raised THEN [name |-> file.name, waypoints |-> <<>>]
                    ELSE loaddat(file)]

\* the results for the files at hand
loaded == [file \in Files |-> loaddat_result(file)]

\* PlannerGUI.load with a .dat file: the route object is replaced; when
\* loaddat raises, self.flightdef is not assigned
load(file) ==
    LET r == loaded[file]
    IN  /\ waypoints' = IF r.raised THEN waypoints ELSE r.fd.waypoints
        /\ fdname' = IF r.raised THEN fdname ELSE r.fd.name
        /\ ev' = Event("load", -1, 0, 0, 0, r.raised, None)
        /\ nev' = IF r.raised THEN nev ELSE 0
        /\ UNCHANGED <<drag_i, drag_cids, lk, rt, objs, cv, hv>>

\* PlannerGUI.update_flightdef: the name is assigned before the lines of the
\* panel are read (the aircraft box offers aircrafts[0] only, so the speed
\* table assigned with it is the one in place); an empty panel is an empty
\* route
update_flightdef(name, panel) ==
    LET raised == \E k \in 1..Len(panel) : short_vals(panel[k])
    IN  /\ fdname' = name
        /\ waypoints' = IF raised THEN waypoints
                         ELSE [k \in 1..Len(panel) |-> WayPoint_from_repr(panel[k])]
        /\ ev' = Event("update_flightdef", -1, 0, 0, 0, raised, None)
        /\ nev' = nev + 1
        /\ UNCHANGED <<drag_i, drag_cids, lk, rt, objs, cv, hv>>

clear_flightdef ==
    /\ waypoints' = <<>>
    /\ ev' = Event("clear", -1, 0, 0, 0, FALSE, None)
    /\ nev' = 0
    /\ UNCHANGED <<fdname, drag_i, drag_cids, lk, rt, objs, cv, hv>>

\* flightdef.py:84-89: the 0-based index of the first of the others within
\* the tolerance, -1 for None.  The tolerance is given in hundredths of a km
\* (relabel_waypoints passes wplock / 100).
RECURSIVE near_other_scan(_, _, _, _)
near_other_scan(waypoint, others, tol100, k) ==
    IF k > Len(others) THEN -1
    ELSE IF 100 * greatcircle(pt(waypoint), pt(others[k])) < tol100
         THEN k - 1
         ELSE near_other_scan(waypoint, others, tol100, k + 1)

RECURSIVE near_other_scan_km(_, _, _, _)
near_other_scan_km(waypoint, others, tol, k) ==
    IF k > Len(others) THEN -1
    ELSE IF greatcircle(pt(waypoint), pt(others[k])) < tol
         THEN k - 1
         ELSE near_other_scan_km(waypoint, others, tol, k + 1)

is_near_other_waypoints_km(waypoint, others, tol100) ==
    near_other_scan_km(waypoint, others, tol100, 1)

is_near_other_waypoints(waypoint, others, tol100) ==
    near_other_scan(waypoint, others, tol100, 1)

\* gui.py:471-481: the loop of relabel_waypoints from waypoint wpi on, i
\* symbols being used; the names are set in place, so the waypoints before
\* the one on which labs[i] fails keep their new names
RECURSIVE relabel_loop(_, _, _, _)
relabel_loop(wps, wpi, i, name) ==
    IF wpi >= Len(wps) THEN [waypoints |-> wps, raised |-> FALSE]
    ELSE LET wp == wps[wpi + 1]
             near_airport == is_near_airport(wp, wplock)
             near_prev == is_near_other_waypoints(wp, SubSeq(wps, 1, wpi), wplock)
         IN  IF near_airport # None
             THEN relabel_loop([wps EXCEPT ![wpi + 1].name = near_airport],
                               wpi + 1, i, name)
             ELSE IF near_prev # -1
             THEN relabel_loop([wps EXCEPT ![wpi + 1].name = wps[near_prev + 1].name],
                               wpi + 1, i, name)
             ELSE IF i >= Len(labs)
             THEN [waypoints |-> wps, raised |-> TRUE]
             ELSE relabel_loop([wps EXCEPT ![wpi + 1].name = labs[i + 1] \o name],
                               wpi + 1, i + 1, name)

relabel_from_B(wps, name) == relabel_loop(wps, 0, 1, name)

\* a variant of relabelled for comparison: the symbol is put before the first waypoint's
\* current name instead of the route name
relabelled_onto_names(wps, name) ==
    relabel_loop(wps, 0, 0, IF wps = <<>> THEN name ELSE wps[1].name)

relabelled(wps, name) == relabel_loop(wps, 0, 0, name)

\* PlannerGUI.relabel_waypoints
relabel_waypoints ==
    LET r == relabelled(waypoints, fdname)
    IN  /\ waypoints' = r.waypoints
        /\ ev' = Event("relabel", -1, 0, 0, 0, r.raised, None)
        /\ nev' = nev + 1
        /\ UNCHANGED <<fdname, drag_i, drag_cids, lk, rt, objs, cv, hv>>

----------------------------------------------------------------------------
(* The editor                                                              *)

no_wp == WayPoint(0, 0, 0, "", "", "")

\* FlightDef.__init__ has the default waypoints=[]: one list object, made
\* when the class is defined, here list 0
objs_idle == [lists |-> << <<>> >>, routes |-> <<>>, last |-> -1]

cv_idle == [pc |-> "idle", ft |-> 0, m |-> 0, back |-> 0, ele |-> 0]

hv_idle == [stop_retrieve |-> FALSE, workers |-> <<>>]

rt_idle == [pc |-> "idle", name |-> "", route |-> <<>>, text |-> "", raised |-> FALSE, out |-> <<>>]

lk_idle ==
    [pc |-> "idle", wp |-> no_wp, tol |-> 0, near |-> None, out |-> no_wp,
     out2 |-> no_wp]

\* PlannerGUI.__init__: an empty route named 'MMDDa'
Init ==
    /\ waypoints = <<>>
    /\ fdname = "MMDDa"
    /\ drag_i = -1
    /\ drag_cids = <<>>
    /\ ev = Event("init", -1, 0, 0, 0, FALSE, None)
    /\ nev = 0
    /\ lk = lk_idle
    /\ rt = rt_idle
    /\ objs = objs_idle
    /\ cv = cv_idle
    /\ hv = hv_idle

\* the dots and the legs a click can hit: those of the first MaxHit waypoints
Indices(wps) == {i \in 0..(Len(wps) - 1) : i < MaxHit}

LegIndices(wps) == {i \in 0..(Len(wps) - 2) : i < MaxHit}

\* mouse events are counted since the route was last loaded or cleared
budget == nev < MaxEvents

\* A mouse-button press outside the navigation modes.  While a drag is
\* connected the left button is still down, so the press is another button.
button_press ==
    /\ \E inaxes \in {"ax", "tsax"}, button \in 1..3, dcontains, lcontains \in BOOLEAN :
         \E di \in (IF dcontains /\ button # 2 THEN Indices(waypoints) ELSE {-1}),
            li \in (IF lcontains /\ ~dcontains /\ button = 2 THEN LegIndices(waypoints) ELSE {-1}),
            p \in (IF inaxes = "ax" /\ button # 3 THEN ClickPoints ELSE {<<0, 0>>}),
            frac \in (IF inaxes = "tsax" /\ button = 2 THEN Fracs ELSE {0}),
            ydata \in (IF inaxes = "tsax" /\ button = 2 THEN InsertAlts ELSE {0}) :
           /\ button = 1 => drag_cids = <<>>
           /\ fig_button_press_callback(inaxes, button, dcontains, di, lcontains, li, p[1], p[2], frac, ydata)

ButtonPress ==
    /\ budget
    /\ button_press

DragMotion ==
    /\ budget
    /\ \E p \in ClickPoints : drag_update("in", p[1], p[2])

DragMotionOff ==
    /\ budget
    /\ \E where \in {"out", "none"} : drag_update(where, 0, 0)

TsDragMotion ==
    /\ budget
    /\ \E ydata \in DragAlts : ts_drag_update(TRUE, ydata)

TsDragMotionOff ==
    /\ budget
    /\ ts_drag_update(FALSE, 0)

ButtonRelease ==
    /\ budget
    /\ end_drag

TsButtonRelease ==
    /\ budget
    /\ end_ts_drag

\* The files that fill the alphabet are read between gestures.
Load ==
    \E file \in Files :
        /\ file \in {full_file, over_file} => drag_cids = <<>>
        /\ load(file)

UpdateFlightDef ==
    /\ budget
    /\ \E name \in PanelNames, panel \in Panels : update_flightdef(name, panel)

Relabel ==
    /\ budget
    /\ relabel_waypoints

Next ==
    \/ ButtonPress
    \/ DragMotion
    \/ DragMotionOff
    \/ TsDragMotion
    \/ TsDragMotionOff
    \/ ButtonRelease
    \/ TsButtonRelease
    \/ Load
    \/ UpdateFlightDef
    \/ Relabel
    \/ clear_flightdef

Spec == Init /\ [][Next]_vars

----------------------------------------------------------------------------
(* Direct calls of the locking helpers, over bounded inputs                *)

LockLons == { 0, 5, 10, 35, 120 }

LockLats == { 0, 6 }

LockTolerances == { 0, wplock, default_wplock }

LockInputs ==
    { WayPoint(lon, lat, alt, name, desc, legtype) :
        lon \in LockLons, lat \in LockLats, alt \in {0, first_alt},
        name \in {"AMMDDa", "CRAN"}, desc \in {"", "note"},
        legtype \in {"transit", "science"} }

InitLock ==
    /\ waypoints = <<>>
    /\ fdname = "MMDDa"
    /\ drag_i = -1
    /\ drag_cids = <<>>
    /\ ev = Event("init", -1, 0, 0, 0, FALSE, None)
    /\ nev = 0
    /\ rt = rt_idle
    /\ objs = objs_idle
    /\ cv = cv_idle
    /\ hv = hv_idle
    /\ \E w \in LockInputs, tol \in LockTolerances :
         lk = [pc |-> "call", wp |-> w, tol |-> tol, near |-> None,
               out |-> no_wp, out2 |-> no_wp]

\* near = is_near_airport(wp, tol); out = lock_WayPoint(wp, tol)
lock_call ==
    /\ lk.pc = "call"
    /\ lk' = [lk EXCEPT !.pc = "locked",
                        !.near = is_near_airport(lk.wp, lk.tol),
                        !.out = lock_WayPoint(lk.wp, lk.tol)]
    /\ UNCHANGED <<waypoints, fdname, drag_i, drag_cids, ev, nev, rt, objs, cv, hv>>

\* out2 = lock_WayPoint(out, tol)
lock_again ==
    /\ lk.pc = "locked"
    /\ lk' = [lk EXCEPT !.pc = "relocked",
                        !.out2 = lock_WayPoint(lk.out, lk.tol)]
    /\ UNCHANGED <<waypoints, fdname, drag_i, drag_cids, ev, nev, rt, objs, cv, hv>>

NextLock ==
    \/ lock_call
    \/ lock_again

SpecLock == InitLock /\ [][NextLock]_vars

----------------------------------------------------------------------------
(* Claims about the locking helpers (checked under SpecLock)               *)

airport_pt(k) == <<airports[k].lon, airports[k].lat>>

locked_state == lk.pc \in {"locked", "relocked"}

\* C1: lock(waypoint): when nearest_airport finds an airport, the result has
\* that airport's registered lon, lat and altitude, its code as name and an
\* empty description; when it finds none, the result is the input waypoint
\* with every field unchanged.
C1_lock_result ==
    locked_state =>
        IF lk.near # None
        THEN \E k \in 1..Len(airports) :
                /\ airports[k].code = lk.near
                /\ lk.out.lon = airports[k].lon
                /\ lk.out.lat = airports[k].lat
                /\ lk.out.alt = airports[k].alt
                /\ lk.out.name = airports[k].code
                /\ lk.out.desc = ""
        ELSE lk.out = lk.wp

\* C1 witness: a waypoint off the airport's position, with its own altitude,
\* name and description, has been locked to an airport.
C1_witness ==
    /\ lk.pc = "locked"
    /\ lk.near = "INN"
    /\ pt(lk.wp) # pt(lk.out)
    /\ lk.wp.alt = first_alt /\ lk.wp.desc = "note" /\ lk.wp.name = "AMMDDa"
    /\ lk.out.name = "INN"

\* C2 (as claimed): lock preserves the input waypoint's leg-type in every
\* case, also when the point is within tolerance of an airport.
C2_legtype_preserved ==
    locked_state => lk.out.legtype = lk.wp.legtype

\* C2 (amended): lock returns the input's leg-type only when no airport is
\* within the tolerance; a waypoint locked to an airport carries the default
\* leg-type 'transit' whatever the input's leg-type was.
C2_legtype_reset_on_lock ==
    locked_state =>
        lk.out.legtype = (IF lk.near = None THEN lk.wp.legtype ELSE "transit")

\* C2 witness: a 'science' waypoint within tolerance of an airport was locked.
C2_witness ==
    /\ lk.pc = "locked"
    /\ lk.near # None
    /\ lk.wp.legtype = "science"
    /\ lk.out.legtype = "transit"

\* C3: nearest_airport returns the first airport, in registration order, whose
\* distance to the point is strictly less than the tolerance (an airport at
\* distance exactly the tolerance does not match, a later airport that is
\* closer is not preferred), and none when no airport qualifies.
C3_first_match_strict ==
    locked_state =>
        LET d(k) == greatcircle(pt(lk.wp), airport_pt(k))
        IN  IF \A k \in 1..Len(airports) : d(k) >= lk.tol
            THEN lk.near = None
            ELSE \E k \in 1..Len(airports) :
                    /\ lk.near = airports[k].code
                    /\ d(k) < lk.tol
                    /\ \A j \in 1..(k - 1) : d(j) >= lk.tol

\* C3 witness: the first airport is returned although a later one is
\* strictly closer to the point.
C3_witness ==
    /\ lk.pc = "locked"
    /\ lk.near = airports[1].code
    /\ greatcircle(pt(lk.wp), airport_pt(2)) < greatcircle(pt(lk.wp), airport_pt(1))

\* C4 (as claimed): for every waypoint, airport table and tolerance,
\* lock(lock(wp)) equals lock(wp) field by field.
C4_lock_idempotent ==
    lk.pc = "relocked" => lk.out2 = lk.out

separated(tol) ==
    \A j, k \in 1..Len(airports) :
        j # k => greatcircle(airport_pt(j), airport_pt(k)) >= tol

\* C4 (amended): lock(lock(wp)) equals lock(wp) field by field whenever no two
\* airports of the table lie within the tolerance of each other.
C4_lock_idempotent_separated ==
    (lk.pc = "relocked" /\ separated(lk.tol)) => lk.out2 = lk.out

\* C4 witness: a waypoint that locking moved to an airport has been locked
\* again, under a tolerance that keeps the airports apart.
C4_witness ==
    /\ lk.pc = "relocked"
    /\ separated(lk.tol)
    /\ lk.near # None
    /\ lk.out # lk.wp
    /\ lk.out2 = lk.out

----------------------------------------------------------------------------
(* Claims about the mouse-button handler (checked under Spec).  In a step  *)
(* ev' records the event handled, waypoints the route before the handler   *)
(* ran and waypoints' the route it left.                                   *)

\* the airport within the lock tolerance of a position, None without one
airport_near(lon, lat) ==
    is_near_airport(WayPoint(lon, lat, 0, "", "", ""), wplock)

airport_of(code) == CHOOSE k \in 1..Len(airports) : airports[k].code = code

\* wp is the waypoint of the airport whose code is given
at_airport(wp, code) ==
    /\ wp.lon = airports[airport_of(code)].lon
    /\ wp.lat = airports[airport_of(code)].lat
    /\ wp.alt = airports[airport_of(code)].alt
    /\ wp.name = code
    /\ wp.desc = ""
    /\ wp.legtype = "transit"

\* after is before with one waypoint put in at position k (1-based)
put_in(before, after, k) ==
    /\ Len(after) = Len(before) + 1
    /\ \A j \in 1..Len(before) :
         after[IF j < k THEN j ELSE j + 1] = before[j]

\* after is before with the waypoint at position k (1-based) taken out
taken_out(before, after, k) ==
    /\ Len(after) = Len(before) - 1
    /\ \A j \in 1..Len(after) :
         after[j] = before[IF j < k THEN j ELSE j + 1]

\* C5: Append(point) with the point within the lock tolerance (10 km) of a
\* registered airport adds exactly one waypoint at the end of the sequence,
\* whose lon/lat are the airport's registered position and not the clicked
\* one; all previously existing waypoints keep their index and fields.
C5_append_near_airport ==
    [][(ev'.op = "append" /\ airport_near(ev'.lon, ev'.lat) # None) =>
          /\ put_in(waypoints, waypoints', Len(waypoints) + 1)
          /\ LET a == airports[airport_of(airport_near(ev'.lon, ev'.lat))]
                 w == waypoints'[Len(waypoints')]
             IN  w.lon = a.lon /\ w.lat = a.lat]_vars

\* C6 (as claimed): Append onto an empty route always produces a first
\* waypoint with altitude 1000 ft and leg-type 'transit', for every clicked
\* point, also one within tolerance of an airport.
C6_first_point_baseline ==
    [][(ev'.op = "append" /\ waypoints = <<>>) =>
          /\ Len(waypoints') = 1
          /\ waypoints'[1].alt = 1000
          /\ waypoints'[1].legtype = "transit"]_vars

\* C6 (amended): Append onto an empty route produces a first waypoint with
\* leg-type 'transit' for every clicked point; its altitude is 1000 ft when
\* the point is not within the lock tolerance of an airport, and the
\* airport's registered altitude when it is.
C6_first_point_baseline_or_airport ==
    [][(ev'.op = "append" /\ waypoints = <<>>) =>
          /\ Len(waypoints') = 1
          /\ waypoints'[1].legtype = "transit"
          /\ LET code == airport_near(ev'.lon, ev'.lat)
             IN  waypoints'[1].alt =
                    (IF code = None THEN 1000
                     ELSE airports[airport_of(code)].alt)]_vars

\* C6 witness: the first waypoint of a route was appended by a click within
\* tolerance of an airport and has the airport's altitude.
C6_witness ==
    /\ ev.op = "append"
    /\ Len(waypoints) = 1
    /\ airport_near(ev.lon, ev.lat) = "CRAN"
    /\ waypoints[1].alt = 358
    /\ waypoints[1].legtype = "transit"

\* the waypoints of a route that no airport locks
unlocked(wps) ==
    {j \in 1..Len(wps) :
        \A k \in 1..Len(airports) :
            greatcircle(pt(wps[j]), airport_pt(k)) >= wplock}

adds_waypoint(op) == op \in {"append", "append_dest", "insert", "ts_insert"}

\* C7: the label proposed for a new waypoint by Append/Insert is alphabet[k]
\* followed by the route name, the alphabet being A-Z then 0-9 and k the
\* number of waypoints currently in the route that are not within the lock
\* tolerance of any airport; airport-locked waypoints never advance k.
C7_label_counts_unlocked ==
    [][(adds_waypoint(ev'.op) /\ ~ev'.raised) =>
          LET k == Cardinality(unlocked(waypoints))
          IN  /\ k < 36
              /\ ev'.name = labs[k + 1] \o fdname]_vars

\* C7 witness: a waypoint was appended to a route of one airport-locked and
\* one other waypoint, under the second symbol of the alphabet.
C7_witness ==
    /\ ev.op = "append"
    /\ ev.name = "BMMDDa"
    /\ Len(waypoints) = 3
    /\ waypoints[2].name = "CRAN"
    /\ waypoints[3].name = "BMMDDa"

inserts(op) == op \in {"insert", "ts_insert"}

\* C8 (as claimed): Insert(afterIndex, point) places the new waypoint at index
\* afterIndex+1, leaves the waypoints up to afterIndex unchanged, shifts every
\* later waypoint up by one index with its fields unchanged, and gives the new
\* waypoint the altitude and leg-type of the waypoint at afterIndex, on the
\* map path and on the altitude-timeseries path.
C8_insert_inherits ==
    [][inserts(ev'.op) =>
          /\ put_in(waypoints, waypoints', ev'.i + 2)
          /\ waypoints'[ev'.i + 2].alt = waypoints[ev'.i + 1].alt
          /\ waypoints'[ev'.i + 2].legtype = waypoints[ev'.i + 1].legtype]_vars

\* C8 (amended): Insert(afterIndex, point) on a route with fewer than 36
\* waypoints away from every airport places the new waypoint at index
\* afterIndex+1, leaves the waypoints up to afterIndex unchanged and shifts
\* every later waypoint up by one index with its fields unchanged.  A new
\* waypoint within the lock tolerance of an airport is that airport's
\* waypoint (its altitude, leg-type 'transit'); otherwise it has, on the map
\* path, the altitude and leg-type of the waypoint at afterIndex and, on the
\* altitude-timeseries path, the clicked altitude and leg-type 'transit'.
\* With 36 or more waypoints away from every airport the insert fails and
\* leaves the route as it was.
C8_insert_frame_and_hints ==
    [][inserts(ev'.op) =>
          IF Cardinality(unlocked(waypoints)) >= 36
          THEN ev'.raised /\ waypoints' = waypoints
          ELSE /\ ~ev'.raised
               /\ put_in(waypoints, waypoints', ev'.i + 2)
               /\ LET new  == waypoints'[ev'.i + 2]
                      prev == waypoints[ev'.i + 1]
                      code == airport_near(new.lon, new.lat)
                  IN  IF code # None THEN at_airport(new, code)
                      ELSE IF ev'.op = "insert"
                           THEN /\ new.alt = prev.alt
                                /\ new.legtype = prev.legtype
                                /\ new.lon = ev'.lon /\ new.lat = ev'.lat
                           ELSE /\ new.alt = ev'.y
                                /\ new.legtype = "transit"]_vars

\* C8 witness: a waypoint inserted on the altitude timeseries after a
\* 'science' waypoint has the clicked altitude and leg-type 'transit', and a
\* later waypoint has moved up.
C8_witness ==
    /\ ev.op = "ts_insert"
    /\ ~ev.raised
    /\ Len(waypoints) >= 3
    /\ waypoints[ev.i + 1].legtype = "science"
    /\ waypoints[ev.i + 2].legtype = "transit"
    /\ waypoints[ev.i + 2].alt = ev.y
    /\ waypoints[ev.i + 2].alt # waypoints[ev.i + 1].alt
    /\ waypoints[ev.i + 3].name = "CRAN"

deletes(op) == op \in {"delete", "ts_delete"}

\* C9: Delete(index), for every route and every valid index, removes exactly
\* the waypoint at that index: the length drops by one, the remaining
\* waypoints keep their relative order and all their fields, and the number
\* of legs becomes max(0, n-2).
C9_delete_frame ==
    [][deletes(ev'.op) =>
          /\ taken_out(waypoints, waypoints', ev'.i + 1)
          /\ Len(legs(waypoints')) =
                (IF Len(waypoints) >= 2 THEN Len(waypoints) - 2 ELSE 0)]_vars

\* C10 (as claimed): while Dragging(i), every UpdateDrag(point) changes only
\* waypoint i: the length and every waypoint j # i are unchanged, and the
\* replaced waypoint i keeps the name, description and leg-type it had, for
\* every target point, also one that snaps to another waypoint or locks to an
\* airport.
C10_drag_keeps_identity ==
    [][ev'.op = "drag_update" =>
          /\ Len(waypoints') = Len(waypoints)
          /\ \A j \in 1..Len(waypoints) :
                IF j # ev'.i + 1 THEN waypoints'[j] = waypoints[j]
                ELSE /\ waypoints'[j].name = waypoints[j].name
                     /\ waypoints'[j].desc = waypoints[j].desc
                     /\ waypoints'[j].legtype = waypoints[j].legtype]_vars

\* C10 (amended): while Dragging(i), every UpdateDrag(point) changes only
\* waypoint i: the length and every waypoint j # i are unchanged.  The
\* replaced waypoint i keeps the altitude, name, description and leg-type it
\* had unless the target, after snapping, is within the lock tolerance of an
\* airport; it then becomes that airport's waypoint: the airport's position
\* and altitude, its code as name, an empty description and leg-type
\* 'transit'.
C10_drag_keeps_identity_unless_locked ==
    [][ev'.op = "drag_update" =>
          /\ Len(waypoints') = Len(waypoints)
          /\ \A j \in 1..Len(waypoints) :
                IF j # ev'.i + 1 THEN waypoints'[j] = waypoints[j]
                ELSE LET code == airport_near(waypoints'[j].lon, waypoints'[j].lat)
                     IN  \/ waypoints'[j] = waypoints[j]
                         \/ /\ code # None
                            /\ at_airport(waypoints'[j], code)
                         \/ /\ code = None
                            /\ waypoints'[j].alt = waypoints[j].alt
                            /\ waypoints'[j].name = waypoints[j].name
                            /\ waypoints'[j].desc = waypoints[j].desc
                            /\ waypoints'[j].legtype = waypoints[j].legtype]_vars

\* C10 witness: a drag update has locked the dragged waypoint of a route of
\* several waypoints to an airport.
C10_witness ==
    /\ ev.op = "drag_update"
    /\ ~ev.raised
    /\ Len(waypoints) >= 2
    /\ ev.i + 1 < Len(waypoints)
    /\ waypoints[ev.i + 1].name = "CRAN"
    /\ waypoints[ev.i + 1].legtype = "transit"

----------------------------------------------------------------------------
(* Claims about the drag handlers (checked under Spec)                     *)

\* the 1-based positions of the waypoints other than the dragged one
others(wps, i) == {k \in 1..Len(wps) : k # i + 1}

\* the event just handled is a drag update that replaced waypoint ev'.i
drag_applied == ev'.op = "drag_update" /\ ~ev'.raised /\ ev'.i >= 0

\* the dragged waypoint, moved to position r and locked
moved_and_locked(w, r) ==
    lock_WayPoint(WayPoint(r[1], r[2], w.alt, w.name, w.desc, w.legtype), wplock)

\* C11 (as claimed): during UpdateDrag the candidate position is snapped,
\* before airport locking, to the position of the first waypoint in sequence
\* order (the dragged one excluded) within the snap tolerance of the
\* candidate, a tolerance tighter than the airport lock tolerance; when
\* several other waypoints qualify, the earliest wins.
C11_snap_first_tighter ==
    [][drag_applied =>
          \E tol \in 0..(wplock - 1) :
             LET c == <<ev'.lon, ev'.lat>>
                 m == {k \in others(waypoints, ev'.i) :
                          greatcircle(c, pt(waypoints[k])) < tol}
                 r == IF m = {} THEN c
                      ELSE pt(waypoints[CHOOSE k \in m : \A j \in m : k <= j])
             IN  waypoints'[ev'.i + 1] =
                    moved_and_locked(waypoints[ev'.i + 1], r)]_vars

\* C11 (amended): during UpdateDrag the candidate position is snapped before
\* airport locking, with the same tolerance as the airport lock (10 km).  The
\* other waypoints are visited in sequence order and each one within the
\* tolerance of the current candidate replaces it: the result is the
\* candidate itself when no other waypoint is within the tolerance of it, and
\* otherwise the position of the last waypoint that matched, so that no later
\* waypoint is within the tolerance of the result; the earliest qualifying
\* waypoint does not win.
C11_snap_last_same_tolerance ==
    [][drag_applied =>
          LET c  == <<ev'.lon, ev'.lat>>
              os == others(waypoints, ev'.i)
              m  == {k \in os : greatcircle(c, pt(waypoints[k])) < wplock}
          IN  IF m = {}
              THEN waypoints'[ev'.i + 1] =
                      moved_and_locked(waypoints[ev'.i + 1], c)
              ELSE \E k \in os :
                      /\ \A j \in os :
                            j > k => greatcircle(pt(waypoints[k]),
                                                 pt(waypoints[j])) >= wplock
                      /\ waypoints'[ev'.i + 1] =
                            moved_and_locked(waypoints[ev'.i + 1],
                                             pt(waypoints[k]))]_vars

\* C11 witness: a drag update left the dragged waypoint on a later waypoint
\* although an earlier one, elsewhere, was within the tolerance of the
\* pointer.
C11_witness ==
    /\ ev.op = "drag_update"
    /\ ~ev.raised
    /\ \E j, k \in others(waypoints, ev.i) :
          /\ j < k
          /\ greatcircle(<<ev.lon, ev.lat>>, pt(waypoints[j])) < wplock
          /\ pt(waypoints[ev.i + 1]) = pt(waypoints[k])
          /\ pt(waypoints[k]) # pt(waypoints[j])

\* the event just handled is a vertical drag update that replaced waypoint
\* ev'.i
ts_drag_applied == ev'.op = "ts_drag_update" /\ ~ev'.raised /\ ev'.i >= 0

\* every waypoint but the one at position k (1-based) is as it was
only_changed(before, after, k) ==
    /\ Len(after) = Len(before)
    /\ \A j \in 1..Len(before) : j # k => after[j] = before[j]

\* alt is a multiple of 10 ft nearest to y
nearest_10(alt, y) == alt % 10 = 0 /\ 2 * Abs(alt - y) <= 10

\* C12 (as claimed): a vertical drag update of waypoint i to raw altitude y
\* sets its altitude to the multiple of 10 ft nearest to y and leaves its lon,
\* lat, name, description and leg-type, and all other waypoints, unchanged,
\* for every waypoint i, also one within the lock tolerance of an airport.
C12_ts_drag_rounds_everywhere ==
    [][ts_drag_applied =>
          /\ only_changed(waypoints, waypoints', ev'.i + 1)
          /\ LET old == waypoints[ev'.i + 1]
                 new == waypoints'[ev'.i + 1]
             IN  /\ nearest_10(new.alt, ev'.y)
                 /\ new = [old EXCEPT !.alt = new.alt]]_vars

\* C12 (amended): a vertical drag update of waypoint i to raw altitude y
\* leaves all other waypoints unchanged.  For a waypoint i that is not within
\* the lock tolerance of an airport it sets the altitude to the multiple of
\* 10 ft nearest to y and leaves lon, lat, name, description and leg-type
\* unchanged; a waypoint i within the lock tolerance of an airport becomes
\* that airport's waypoint, with the airport's registered altitude whatever y
\* is.
C12_ts_drag_rounds_unless_locked ==
    [][ts_drag_applied =>
          /\ only_changed(waypoints, waypoints', ev'.i + 1)
          /\ LET old  == waypoints[ev'.i + 1]
                 new  == waypoints'[ev'.i + 1]
                 code == airport_near(old.lon, old.lat)
             IN  IF code = None
                 THEN /\ nearest_10(new.alt, ev'.y)
                      /\ new = [old EXCEPT !.alt = new.alt]
                 ELSE at_airport(new, code)]_vars

\* C12 witness: a vertical drag to 1016 ft has put a waypoint away from every
\* airport at 1020 ft.
C12_witness ==
    /\ ev.op = "ts_drag_update"
    /\ ~ev.raised
    /\ ev.i >= 0
    /\ ev.y = 1016
    /\ airport_near(waypoints[ev.i + 1].lon, waypoints[ev.i + 1].lat) = None
    /\ waypoints[ev.i + 1].alt = 1020

\* the interaction modes of the editor
Idle == drag_cids = <<>>

Dragging(i) == drag_cids # <<>> /\ drag_i = i

starts_drag(op) == op \in {"start_drag", "start_ts_drag"}

ends_drag(op) == op \in {"end_drag", "end_ts_drag"}

pointer_motion(op) == op \in {"drag_update", "ts_drag_update"}

\* C13: the editor starts in Idle; StartDrag(i) moves it to Dragging(i) and
\* EndDrag moves it back to Idle, neither changing the waypoint sequence; the
\* mode changes in no other way, and pointer-motion events are handled, and
\* so mutate the route, only while the editor is Dragging, never while Idle.
C13_drag_state_machine ==
    /\ Idle
    /\ [][/\ (starts_drag(ev'.op) /\ ~ev'.raised) =>
                /\ ~Idle' /\ drag_i' = ev'.i /\ ev'.i >= 0
                /\ waypoints' = waypoints
          /\ ends_drag(ev'.op) => (~Idle /\ Idle' /\ waypoints' = waypoints)
          /\ (Idle # Idle') => (starts_drag(ev'.op) \/ ends_drag(ev'.op))
          /\ pointer_motion(ev'.op) => (~Idle /\ Dragging(drag_i)')
          /\ (Idle /\ waypoints' # waypoints) => ~pointer_motion(ev'.op)]_vars

\* C13 witness: a drag of a waypoint was started and has ended, the editor
\* being back in Idle.
C13_witness ==
    /\ ev.op = "end_drag"
    /\ Idle
    /\ drag_i >= 0
    /\ drag_i < Len(waypoints)

----------------------------------------------------------------------------
(* A route written with FlightDef.__repr__ and read back line by line      *)

ReprNames == { "", "A", "AMMDDa", "AMMDDab" }

ReprDescs == { "", "survey", "low, then climb", " hold" }

\* -0.617, 11.3444 and 11.34445 degrees
ReprLons == { -6170, 113444, 113445 }

\* 358.7, 1000.5 and 1906 ft
ReprAlts == { 3587000, 10005000, 19060000 }

ReprWayPoints ==
    { WayPoint(lon, 520720, alt, name, desc, "transit") :
        lon \in ReprLons, alt \in ReprAlts, name \in ReprNames, desc \in ReprDescs }

ReprSeconds ==
    { WayPoint(-6170, 520720, 3580000, "CRAN", "", "science"),
      WayPoint(113440, 472600, 19060000, "INN", "to, from", "transit") }

ReprRoutes ==
    {<<>>} \cup { <<w>> : w \in ReprWayPoints }
           \cup { <<w, v>> : w \in ReprWayPoints, v \in ReprSeconds }

InitRepr ==
    /\ waypoints = <<>>
    /\ fdname = "MMDDa"
    /\ drag_i = -1
    /\ drag_cids = <<>>
    /\ ev = Event("init", -1, 0, 0, 0, FALSE, None)
    /\ nev = 0
    /\ lk = lk_idle
    /\ objs = objs_idle
    /\ cv = cv_idle
    /\ hv = hv_idle
    /\ \E route \in ReprRoutes :
         rt = [pc |-> "made", name |-> "MMDDa", route |-> route, text |-> "",
               raised |-> FALSE, out |-> <<>>]

\* FlightDef.savedat: f.write(self.__repr__())
savedat ==
    /\ rt.pc = "made"
    /\ rt' = [rt EXCEPT !.pc = "saved", !.text = FlightDef_repr(rt.name, rt.route)]
    /\ UNCHANGED <<waypoints, fdname, drag_i, drag_cids, ev, nev, lk, objs, cv, hv>>

\* flightdef.py:339-344: the saved lines read back with WayPoint_from_repr
read_saved ==
    /\ rt.pc = "saved"
    /\ LET raised == dat_raises(rt.text)
       IN  rt' = [rt EXCEPT !.pc = "read",
                            !.raised = raised,
                            !.out = IF raised THEN <<>>
                                    ELSE loaddat(read_dat(rt.text)).waypoints]
    /\ UNCHANGED <<waypoints, fdname, drag_i, drag_cids, ev, nev, lk, objs, cv, hv>>

NextRepr == savedat \/ read_saved

SpecRepr == InitRepr /\ [][NextRepr]_vars

----------------------------------------------------------------------------
(* Claims about RelabelAll (checked under Spec)                            *)

\* waypoint j of the route is within the lock tolerance of some airport
by_airport(wps, j) == airport_near(wps[j].lon, wps[j].lat) # None

\* the earlier waypoints within the finer tolerance (wplock / 100) of
\* waypoint j
earlier_twins(wps, j) ==
    {k \in 1..(j - 1) : 100 * greatcircle(pt(wps[j]), pt(wps[k])) < wplock}

\* waypoint j takes an alphabet symbol
takes_symbol(wps, j) == ~by_airport(wps, j) /\ earlier_twins(wps, j) = {}

\* C14: RelabelAll on a route of k <= 36 waypoints, none within tolerance of
\* an airport and none co-located with an earlier waypoint, names the waypoint
\* at index j with the j-th symbol of the alphabet (A..Z, then 0..9) followed
\* by the route name, so the symbols strictly increase with the index.
C14_relabel_in_order ==
    [][(/\ ev'.op = "relabel"
        /\ Len(waypoints) <= 36
        /\ \A j \in 1..Len(waypoints) : takes_symbol(waypoints, j)) =>
          /\ ~ev'.raised
          /\ Len(waypoints') = Len(waypoints)
          /\ \A j \in 1..Len(waypoints) :
                waypoints'[j].name = labs[j] \o fdname]_vars

\* C14 witness: a route of 36 waypoints has been relabelled, the 27th under
\* the first digit and the last under the last digit.
C14_witness ==
    /\ ev.op = "relabel"
    /\ ~ev.raised
    /\ Len(waypoints) = 36
    /\ \A j \in 1..Len(waypoints) : takes_symbol(waypoints, j)
    /\ waypoints[1].name = "AMMDDa"
    /\ waypoints[26].name = "ZMMDDa"
    /\ waypoints[27].name = "0MMDDa"
    /\ waypoints[36].name = "9MMDDa"

\* the smallest member of a non-empty set of indices
first_of(S) == CHOOSE k \in S : \A m \in S : k <= m

\* the number of waypoints up to index j that take an alphabet symbol
symbols_upto(wps, j) == Cardinality({k \in 1..j : takes_symbol(wps, k)})

\* waypoint j of the relabelled route follows the first applicable rule
rule_applied(before, after, j, name) ==
    IF by_airport(before, j)
    THEN after[j].name = airport_near(before[j].lon, before[j].lat)
    ELSE IF earlier_twins(before, j) # {}
    THEN after[j].name = after[first_of(earlier_twins(before, j))].name
    ELSE after[j].name = labs[symbols_upto(before, j)] \o name

\* C15: RelabelAll names each waypoint by the first applicable rule: near an
\* airport, the airport's code; otherwise within a hundredth of the lock
\* tolerance of an earlier waypoint, the name that waypoint has after
\* relabelling, no symbol being used; otherwise the next symbol followed by
\* the route name.  Co-located waypoints away from the airports therefore end
\* with the same name.  (Stated for the waypoints that the 36 symbols reach.)
C15_relabel_rules ==
    [][ev'.op = "relabel" =>
          /\ Len(waypoints') = Len(waypoints)
          /\ \A j \in 1..Len(waypoints) :
                symbols_upto(waypoints, j) <= Len(labs) =>
                   /\ rule_applied(waypoints, waypoints', j, fdname)
                   /\ \A k \in 1..(j - 1) :
                        (/\ pt(waypoints[k]) = pt(waypoints[j])
                         /\ ~by_airport(waypoints, j)) =>
                            waypoints'[k].name = waypoints'[j].name]_vars

\* C15 witness: a route that visits an airport and comes back to its first
\* waypoint has been relabelled; the first and third waypoints share the
\* symbol A and the fourth takes B.
C15_witness ==
    /\ ev.op = "relabel"
    /\ ~ev.raised
    /\ Len(waypoints) = 4
    /\ by_airport(waypoints, 2)
    /\ earlier_twins(waypoints, 3) = {1}
    /\ takes_symbol(waypoints, 4)
    /\ waypoints[1].name = "AMMDDa"
    /\ waypoints[2].name = "CRAN"
    /\ waypoints[3].name = "AMMDDa"
    /\ waypoints[4].name = "BMMDDa"

\* C16: every editor operation either completes or fails leaving the route
\* exactly as it was; in particular RelabelAll on a route that needs more than
\* the 36 symbols fails and leaves every waypoint's name as it was.
C16_failure_leaves_route ==
    [][ev'.raised => waypoints' = waypoints]_vars

----------------------------------------------------------------------------
(* Claims about the legs and their metrics                                 *)

\* C17: in every state reachable by appends, inserts, deletes, drags,
\* relabelling, clearing and loading, legs() has max(0, n-1) entries for a
\* route of n waypoints, and entry i is the pair of waypoint i and waypoint
\* i+1 of the current sequence.
C17_legs_follow_waypoints ==
    LET n == Len(waypoints)
    IN  /\ Len(legs(waypoints)) = (IF n - 1 > 0 THEN n - 1 ELSE 0)
        /\ \A i \in 0..(n - 2) :
              /\ legs(waypoints)[i + 1][1] = waypoints[i + 1]
              /\ legs(waypoints)[i + 1][2] = waypoints[i + 2]

\* C17 witness: a waypoint has just been deleted from a route of three, and
\* the two that remain make the only leg.
C17_witness ==
    /\ ev.op \in {"delete", "ts_delete"}
    /\ ~ev.raised
    /\ Len(waypoints) = 2
    /\ legs(waypoints) = << <<waypoints[1], waypoints[2]>> >>

\* the speed tables a route can carry, and the leg-types of the routes above
SpeedTables == { legtype_spds, default_legtype_spds }

LegTypes == { "transit", "science", "special", "ferry" }

\* the route with the leg-type of waypoint j replaced
with_legtype(wps, j, lt) == [wps EXCEPT ![j].legtype = lt]

\* leg_time fails exactly when the start of the leg has no speed, and the
\* leg-type of the end of the leg, hence of the last waypoint, has no effect
metrics_by_start(wps) ==
    \A spds \in SpeedTables :
        /\ \A k \in 1..(Len(wps) - 1) :
              /\ leg_time(spds, legs(wps)[k]).raised <=>
                     wps[k].legtype \notin DOMAIN spds
              /\ \A lt \in LegTypes :
                     leg_time(spds, legs(with_legtype(wps, k + 1, lt))[k]) =
                         leg_time(spds, legs(wps)[k])
        /\ \A lt \in LegTypes :
              Len(wps) >= 1 =>
                  total_time(spds, with_legtype(wps, Len(wps), lt)) =
                      total_time(spds, wps)

\* a line of the file has fewer than six fields (C20)
malformed(file) == \E k \in 1..Len(file.lines) : Len(file.lines[k]) < 6

\* the press has put one more waypoint in the route
appended == ev'.op \in {"append", "append_dest"} /\ ~ev'.raised

----------------------------------------------------------------------------
(* Claims about the serialized form (C19 under SpecRepr)                   *)

\* the route has been written and read back
read_back == rt'.pc = "read"

\* lon and lat within half a thousandth, alt within half a foot
close_numbers(a, b) ==
    /\ 2 * Abs(a.lon - b.lon) <= 10
    /\ 2 * Abs(a.lat - b.lat) <= 10
    /\ 2 * Abs(a.alt - b.alt) <= 10000

same_waypoint(a, b) ==
    /\ a.name = b.name
    /\ a.legtype = b.legtype
    /\ a.desc = b.desc
    /\ close_numbers(a, b)

\* free of the field separator and of blanks at either end
plain_text(s) ==
    /\ \A k \in 1..Len(s) : SubSeq(s, k, k) \notin {",", "\n"}
    /\ Len(s) > 0 => (SubSeq(s, 1, 1) # " " /\ SubSeq(s, Len(s), Len(s)) # " ")

----------------------------------------------------------------------------
(* Claims about bulk replacement (checked under Spec)                      *)

\* C20: bulk replacement from serialized text is all-or-nothing: when a line
\* has a field count other than six or a non-numeric lon, lat or alt, the
\* operation fails and the name, the aircraft, the speed table and the
\* waypoints of the active route are exactly as before, for loading a file
\* and for Update FlightDef alike.
C20_bulk_all_or_nothing ==
    [][(ev'.op \in {"load", "update_flightdef"} /\ ev'.raised) =>
          /\ waypoints' = waypoints
          /\ fdname' = fdname]_vars

----------------------------------------------------------------------------
(* FlightDef objects and the lists they hold (C21 under SpecAlias).  A     *)
(* list object is an index into objs.lists, a route is the index of the    *)
(* list its waypoints attribute refers to.                                 *)

MaxRoutes == 3
MaxListLen == 2

\* the waypoints put in the lists
AliasWayPoints == { WayPoint(20, 0, 1000, "AMMDDa", "", "transit") }

\* the waypoints of route r (0-based)
route_waypoints(o, r) == o.lists[o.routes[r + 1] + 1]

\* FlightDef(): self.waypoints = waypoints, the default object
FlightDef_init_default ==
    /\ Len(objs.routes) < MaxRoutes
    /\ objs' = [objs EXCEPT !.routes = Append(@, 0), !.last = -1]
    /\ UNCHANGED <<waypoints, fdname, drag_i, drag_cids, ev, nev, lk, rt, cv, hv>>

\* FlightDef(waypoints=[]) as in PlannerGUI.__init__, FlightDef(waypoints=
\* waypoints) as in loaddat: the caller's new list
FlightDef_init_list ==
    /\ Len(objs.routes) < MaxRoutes
    /\ objs' = [objs EXCEPT !.lists = Append(@, <<>>),
                            !.routes = Append(@, Len(objs.lists)),
                            !.last = -1]
    /\ UNCHANGED <<waypoints, fdname, drag_i, drag_cids, ev, nev, lk, rt, cv, hv>>

\* flightdef.waypoints.append(wp), .insert(i, wp), .pop(i) on route r
route_append(r, wp) ==
    /\ Len(route_waypoints(objs, r)) < MaxListLen
    /\ objs' = [objs EXCEPT !.lists[objs.routes[r + 1] + 1] = Append(@, wp),
                            !.last = r]
    /\ UNCHANGED <<waypoints, fdname, drag_i, drag_cids, ev, nev, lk, rt, cv, hv>>

route_insert(r, i, wp) ==
    /\ Len(route_waypoints(objs, r)) < MaxListLen
    /\ objs' = [objs EXCEPT !.lists[objs.routes[r + 1] + 1] = list_insert(@, i, wp),
                            !.last = r]
    /\ UNCHANGED <<waypoints, fdname, drag_i, drag_cids, ev, nev, lk, rt, cv, hv>>

route_pop(r, i) ==
    /\ objs' = [objs EXCEPT !.lists[objs.routes[r + 1] + 1] = list_pop(@, i),
                            !.last = r]
    /\ UNCHANGED <<waypoints, fdname, drag_i, drag_cids, ev, nev, lk, rt, cv, hv>>

RouteIndices == 0..(Len(objs.routes) - 1)

RouteAppend ==
    \E r \in RouteIndices, wp \in AliasWayPoints : route_append(r, wp)

RouteInsert ==
    \E r \in RouteIndices, wp \in AliasWayPoints :
        \E i \in 0..(Len(route_waypoints(objs, r)) - 1) : route_insert(r, i + 1, wp)

RoutePop ==
    \E r \in RouteIndices :
        \E i \in 0..(Len(route_waypoints(objs, r)) - 1) : route_pop(r, i)

InitAlias ==
    /\ waypoints = <<>>
    /\ fdname = "MMDDa"
    /\ drag_i = -1
    /\ drag_cids = <<>>
    /\ ev = Event("init", -1, 0, 0, 0, FALSE, None)
    /\ nev = 0
    /\ lk = lk_idle
    /\ rt = rt_idle
    /\ objs = objs_idle
    /\ cv = cv_idle
    /\ hv = hv_idle

NextAlias ==
    \/ FlightDef_init_default
    \/ FlightDef_init_list
    \/ RouteAppend
    \/ RouteInsert
    \/ RoutePop

SpecAlias == InitAlias /\ [][NextAlias]_vars

\* C21: no two route objects share a waypoint sequence, two routes created
\* empty without a waypoint list included, so appending, inserting or
\* deleting a waypoint in one route never changes the waypoints of another.
C21_no_aliasing ==
    [][objs'.last >= 0 =>
          \A q \in RouteIndices :
              q # objs'.last => route_waypoints(objs', q) = route_waypoints(objs, q)]_vars

----------------------------------------------------------------------------
(* Unit conversions (C22 under SpecUnits).  Lengths are integers in        *)
(* hundredths of the unit; the factor 0.3048 is the fraction 381 / 1250.   *)

MaxAlt == 40

\* whole-foot altitudes in steps of 250 ft, in hundredths of a foot
UnitAlts == { k * 250 * 100 : k \in 0..MaxAlt }

\* n / d rounded to the nearest integer, for n >= 0 and d > 0
div_round(n, d) == (n + d \div 2) \div d

\* ft2m(alt): return alt / 0.3048
ft2m(alt) == div_round(alt * 1250, 381)

\* m2ft(alt): return alt * 0.3048
m2ft(alt) == div_round(alt * 381, 1250)

\* GPXTrackPoint(wp.lat, wp.lon, elevation=ft2m(wp.alt)) in print_gpx
gpx_elevation(wp) == ft2m(wp.alt * 100)

Ft2m ==
    /\ cv.pc = "idle"
    /\ cv' = [cv EXCEPT !.pc = "ft2m", !.m = ft2m(cv.ft)]
    /\ UNCHANGED <<waypoints, fdname, drag_i, drag_cids, ev, nev, lk, rt, objs, hv>>

M2ft ==
    /\ cv.pc = "ft2m"
    /\ cv' = [cv EXCEPT !.pc = "m2ft", !.back = m2ft(cv.m)]
    /\ UNCHANGED <<waypoints, fdname, drag_i, drag_cids, ev, nev, lk, rt, objs, hv>>

PrintGpx ==
    /\ cv.pc = "idle"
    /\ cv' = [cv EXCEPT !.pc = "gpx",
                        !.ele = gpx_elevation(WayPoint(20, 0, cv.ft \div 100, "AMMDDa", "", "transit"))]
    /\ UNCHANGED <<waypoints, fdname, drag_i, drag_cids, ev, nev, lk, rt, objs, hv>>

InitUnits ==
    /\ waypoints = <<>>
    /\ fdname = "MMDDa"
    /\ drag_i = -1
    /\ drag_cids = <<>>
    /\ ev = Event("init", -1, 0, 0, 0, FALSE, None)
    /\ nev = 0
    /\ lk = lk_idle
    /\ rt = rt_idle
    /\ objs = objs_idle
    /\ hv = hv_idle
    /\ \E ft \in UnitAlts : cv = [cv_idle EXCEPT !.ft = ft]

NextUnits ==
    \/ Ft2m
    \/ M2ft
    \/ PrintGpx

SpecUnits == InitUnits /\ [][NextUnits]_vars

\* C22: the feet-to-metres conversion returns ft * 0.3048, the
\* metres-to-feet conversion takes that value back to the feet it came
\* from, and the GPX elevation of a waypoint is ft * 0.3048 of its altitude.
C22_ft2m_times_03048 ==
    /\ cv.pc = "ft2m" => cv.m = div_round(cv.ft * 381, 1250)
    /\ cv.pc = "m2ft" => cv.back = cv.ft
    /\ cv.pc = "gpx" => cv.ele = div_round(cv.ft * 381, 1250)

----------------------------------------------------------------------------
(* Image harvesting (C24, C25 under SpecHarvest and SpecHarvestFair).      *)
(* hv.stop_retrieve is the one-element list shared by the form's buttons   *)
(* and by every worker thread it has started; hv.workers are the threads   *)
(* in the order of their Submit.  A worker's pc is "loop" (about to call   *)
(* get_image), "get_image" (a retrieval in progress), "check" (about to    *)
(* read the flag), "finish" (left the loops, about to call finish),        *)
(* "stopped", "finished" or "raised" (the thread has ended).               *)

MaxWorkers == 2
MaxDays == 1

\* the variables harvested (the first two of mo_varnames)
harvest_varnames == <<"Orog", "RainSnowRates">>

\* harvest_date(..., frequency=1, ...)
frequency == 1

\* nleadtimes = int(frequency) * int(ndays) + 1
nleadtimes(ndays) == frequency * ndays + 1

\* the number of (variable, valid-time) retrievals of one harvest
num_retrievals(ndays) == Len(harvest_varnames) * nleadtimes(ndays)

\* a thread that has not ended
alive(wk) == wk.pc \in {"loop", "get_image", "check", "finish"}

\* a new worker thread: n retrievals to make, k of them attempted; late
\* counts the retrievals begun while the flag was set, stop_pc is where
\* the worker was when the flag was last set, asked whether Stop was
\* pressed while it had two or more retrievals still to attempt, seen
\* whether a check read the flag set, fin the calls of finish
new_worker(ndays) ==
    [pc |-> "loop", n |-> num_retrievals(ndays), k |-> 0, late |-> 0,
     stop_pc |-> "none", asked |-> FALSE, seen |-> FALSE, fin |-> 0]

\* _submitform: stop_retrieve[0] = False, then start the worker thread
submitform(ndays) ==
    [stop_retrieve |-> FALSE,
     workers |-> Append([i \in DOMAIN hv.workers |->
                            [hv.workers[i] EXCEPT !.late = 0, !.stop_pc = "none"]],
                        new_worker(ndays))]

\* _stopretrieve: stop_retrieve[0] = True
stopretrieve ==
    [stop_retrieve |-> TRUE,
     workers |-> [i \in DOMAIN hv.workers |->
                    LET wk == hv.workers[i]
                    IN  IF alive(wk)
                        THEN [wk EXCEPT !.stop_pc = IF hv.stop_retrieve THEN @ ELSE wk.pc,
                                        !.asked = @ \/ wk.n - wk.k >= 2]
                        ELSE wk]]

\* the loop reaches get_image(...): a retrieval begins
begin_get_image(wk) ==
    [wk EXCEPT !.pc = "get_image",
               !.late = IF hv.stop_retrieve THEN @ + 1 ELSE @]

\* get_image returns (a file name, or None when the download failed)
end_get_image(wk) == [wk EXCEPT !.pc = "check", !.k = @ + 1]

\* requests.get raises inside get_image: the thread ends there
raise_get_image(wk) == [wk EXCEPT !.pc = "raised", !.k = @ + 1]

\* a variant of stop_check for comparison: the flag is never read
stop_check_blind(wk) ==
    IF wk.k < wk.n THEN [wk EXCEPT !.pc = "loop"] ELSE [wk EXCEPT !.pc = "finish"]

\* if stop(): return; otherwise the next retrieval or the end of the loops
stop_check(wk) ==
    IF hv.stop_retrieve
    THEN [wk EXCEPT !.pc = "stopped", !.seen = TRUE]
    ELSE IF wk.k < wk.n THEN [wk EXCEPT !.pc = "loop"] ELSE [wk EXCEPT !.pc = "finish"]

\* finish(): _finishretrieve, then harvest_date returns
call_finish(wk) == [wk EXCEPT !.pc = "finished", !.fin = @ + 1]

Workers == 1..MaxWorkers

worker_step(w, pc, next) ==
    /\ w <= Len(hv.workers)
    /\ hv.workers[w].pc = pc
    /\ hv' = [hv EXCEPT !.workers[w] = next]
    /\ UNCHANGED <<waypoints, fdname, drag_i, drag_cids, ev, nev, lk, rt, objs, cv>>

Submit ==
    /\ Len(hv.workers) < MaxWorkers
    /\ \E ndays \in 0..MaxDays : hv' = submitform(ndays)
    /\ UNCHANGED <<waypoints, fdname, drag_i, drag_cids, ev, nev, lk, rt, objs, cv>>

Stop ==
    /\ hv' = stopretrieve
    /\ UNCHANGED <<waypoints, fdname, drag_i, drag_cids, ev, nev, lk, rt, objs, cv>>

BeginGetImage(w) ==
    w <= Len(hv.workers) /\ worker_step(w, "loop", begin_get_image(hv.workers[w]))

EndGetImage(w) ==
    w <= Len(hv.workers) /\ worker_step(w, "get_image", end_get_image(hv.workers[w]))

RaiseGetImage(w) ==
    w <= Len(hv.workers) /\ worker_step(w, "get_image", raise_get_image(hv.workers[w]))

StopCheck(w) ==
    w <= Len(hv.workers) /\ worker_step(w, "check", stop_check(hv.workers[w]))

CallFinish(w) ==
    w <= Len(hv.workers) /\ worker_step(w, "finish", call_finish(hv.workers[w]))

InitHarvest ==
    /\ waypoints = <<>>
    /\ fdname = "MMDDa"
    /\ drag_i = -1
    /\ drag_cids = <<>>
    /\ ev = Event("init", -1, 0, 0, 0, FALSE, None)
    /\ nev = 0
    /\ lk = lk_idle
    /\ rt = rt_idle
    /\ objs = objs_idle
    /\ cv = cv_idle
    /\ hv = hv_idle

NextHarvest ==
    \/ Submit
    \/ Stop
    \/ \E w \in Workers : BeginGetImage(w)
    \/ \E w \in Workers : EndGetImage(w)
    \/ \E w \in Workers : RaiseGetImage(w)
    \/ \E w \in Workers : StopCheck(w)
    \/ \E w \in Workers : CallFinish(w)

SpecHarvest == InitHarvest /\ [][NextHarvest]_vars

\* Every started thread is scheduled again and again, and a retrieval in
\* progress returns: a worker that can take a step other than raising
\* eventually takes one.
harvest_progress(w) ==
    \/ BeginGetImage(w)
    \/ EndGetImage(w)
    \/ StopCheck(w)
    \/ CallFinish(w)

SpecHarvestFair ==
    InitHarvest /\ [][NextHarvest]_vars /\ \A w \in Workers : WF_vars(harvest_progress(w))

\* worker w has been started and its thread has not ended
worker_alive(w) == w <= Len(hv.workers) /\ alive(hv.workers[w])

\* finish is called at most once by a worker, and only by one that has
\* attempted every retrieval and never read the flag set
callback_once ==
    \A w \in 1..Len(hv.workers) :
        LET wk == hv.workers[w]
        IN  /\ wk.fin <= 1
            /\ wk.fin = 1 => (wk.k = wk.n /\ ~wk.seen)
            /\ wk.pc = "finished" => wk.fin = 1

C25_stop_never_lost ==
    \A w \in 1..Len(hv.workers) :
        hv.workers[w].asked => hv.workers[w].k < hv.workers[w].n

----------------------------------------------------------------------------
(* The editor again (C26 .. C30)                                           *)

\* C26: whenever the editor is Dragging(i), i is an index of the current
\* waypoint sequence, and the waypoint at i is the one the drag started on:
\* no event other than a drag update, delivered while the drag handlers
\* are connected, changes the waypoint at i.
C26_drag_index_valid ==
    /\ [](~Idle => in_range(waypoints, drag_i))
    /\ [][(~Idle /\ ~Idle' /\ ~pointer_motion(ev'.op)) =>
             /\ in_range(waypoints, drag_i)
             /\ in_range(waypoints', drag_i)
             /\ waypoints'[drag_i + 1] = waypoints[drag_i + 1]]_vars

\* Gesture edits alone, from the empty route: the mouse events of Spec,
\* MaxGestures of them, without the panel buttons.
MaxGestures == 4

gesture_budget == nev < MaxGestures

GesturePress == gesture_budget /\ button_press

GestureDragMotion ==
    /\ gesture_budget
    /\ \E p \in ClickPoints : drag_update("in", p[1], p[2])

GestureTsDragMotion ==
    /\ gesture_budget
    /\ \E ydata \in DragAlts : ts_drag_update(TRUE, ydata)

GestureRelease == gesture_budget /\ end_drag

GestureTsRelease == gesture_budget /\ end_ts_drag

NextGesture ==
    \/ GesturePress
    \/ GestureDragMotion
    \/ GestureTsDragMotion
    \/ GestureRelease
    \/ GestureTsRelease

SpecGesture == Init /\ [][NextGesture]_vars

\* C27: after any sequence of gesture edits from the empty route, every
\* waypoint within the lock tolerance of an airport sits at the position of
\* the first such airport and carries its code as name and its altitude.
C27_locking_invariant ==
    \A k \in 1..Len(waypoints) :
        LET near_airport == is_near_airport(waypoints[k], wplock)
        IN  near_airport # None =>
                /\ waypoints[k].lon = airport_entry(near_airport).lon
                /\ waypoints[k].lat = airport_entry(near_airport).lat
                /\ waypoints[k].name = near_airport
                /\ waypoints[k].alt = airport_entry(near_airport).alt

\* C27 witness: a waypoint was dragged onto an airport, and a waypoint at
\* an airport was dragged vertically; the route holds both kinds.
C27_witness ==
    /\ ev.op \in {"drag_update", "ts_drag_update"}
    /\ ev.i >= 0
    /\ ~ev.raised
    /\ is_near_airport(waypoints[ev.i + 1], wplock) # None
    /\ \E k \in 1..Len(waypoints) : is_near_airport(waypoints[k], wplock) = None

\* Append, Insert and Delete alone, from the empty route (C28 under
\* SpecLabels): the button presses that take one of these branches.
EditOps == {"append", "append_dest", "insert", "ts_insert", "delete", "ts_delete"}

AddOps == {"append", "append_dest", "insert", "ts_insert"}

EditPress ==
    /\ gesture_budget
    /\ button_press
    /\ ev'.op \in EditOps

NextLabels == EditPress

SpecLabels == Init /\ [][NextLabels]_vars

\* the names of the waypoints of wps that are not within the lock
\* tolerance of an airport, in sequence order
RECURSIVE unlocked_names(_)
unlocked_names(wps) ==
    IF wps = <<>> THEN <<>>
    ELSE LET rest == unlocked_names(SubSeq(wps, 1, Len(wps) - 1))
             wp == wps[Len(wps)]
         IN  IF is_near_airport(wp, wplock) = None THEN Append(rest, wp.name)
             ELSE rest

labels_unique(wps) ==
    LET names == unlocked_names(wps)
    IN  \A j, k \in 1..Len(names) : names[j] = names[k] => j = k

\* the unlocked waypoints carry exactly the first symbols of the alphabet,
\* as many as there are of them, each once
labels_dense(wps, name) ==
    LET names == unlocked_names(wps)
    IN  /\ labels_unique(wps)
        /\ {names[k] : k \in 1..Len(names)} = {labs[k] \o name : k \in 1..Len(names)}

\* C28 (as stated): after any sequence of Append, Insert and Delete
\* operations from the empty route, no two waypoints that are not
\* airport-locked carry the same name.
C28_labels_unique ==
    labels_unique(waypoints)

\* C28 (amended): an Append or Insert on a route whose unlocked waypoints
\* carry the first symbols of the alphabet, each once (as they do after
\* Appends and Inserts alone from the empty route) leaves such a route: no
\* two unlocked waypoints carry the same name.
C28_labels_unique_without_delete ==
    /\ labels_dense(waypoints, fdname)
    /\ [][(labels_dense(waypoints, fdname) /\ ev'.op \in AddOps /\ ~ev'.raised) =>
             /\ labels_dense(waypoints', fdname')
             /\ labels_unique(waypoints')]_vars

\* C28 witness: three unlocked waypoints after an insert, named A, B, C in
\* some order
C28_witness ==
    /\ ev.op \in {"insert", "ts_insert"}
    /\ ~ev.raised
    /\ Len(unlocked_names(waypoints)) = 3
    /\ labels_dense(waypoints, fdname)

\* C29: RelabelAll on a route it can label changes no field other than
\* name (length, order, lon, lat, alt, leg-type and description stay), and
\* applying it again with the same route name changes nothing.
C29_relabel_idempotent ==
    [][(ev'.op = "relabel" /\ ~ev'.raised) =>
          /\ Len(waypoints') = Len(waypoints)
          /\ \A k \in 1..Len(waypoints) :
                 [waypoints'[k] EXCEPT !.name = waypoints[k].name] = waypoints[k]
          /\ ~relabelled(waypoints', fdname').raised
          /\ relabelled(waypoints', fdname').waypoints = waypoints']_vars

\* C29 witness: a relabelled route whose names were changed by the
\* relabelling while a leg-type other than the default stayed in place
C29_witness ==
    /\ ev.op = "relabel"
    /\ ~ev.raised
    /\ \E k \in 1..Len(waypoints) : waypoints[k].legtype # "transit"
    /\ \E k \in 1..Len(waypoints) : waypoints[k].name = "BMMDDb"

\* an append of a waypoint that did not lock to an airport, onto a route
\* that was not empty
appended_unlocked(op) ==
    /\ ev'.op = op
    /\ ~ev'.raised
    /\ Len(waypoints) > 0
    /\ Len(waypoints') = Len(waypoints) + 1
    /\ airport_near(ev'.lon, ev'.lat) = None

\* the last waypoint of wps has the altitude and the leg-type of wp
inherits(wps, wp) ==
    /\ wps[Len(wps)].alt = wp.alt
    /\ wps[Len(wps)].legtype = wp.legtype

\* C30 (as stated): an append onto a non-empty route gives the new
\* waypoint, when it is not locked to an airport, the altitude and the
\* leg-type of the route's last waypoint, also on a route all of whose
\* waypoints are airport-locked.
C30_append_inherits ==
    [][appended_unlocked("append") =>
          inherits(waypoints', waypoints[Len(waypoints)])]_vars

\* C30 (amended): such an append gives the new waypoint the altitude and
\* the leg-type of the route's last waypoint when the route holds a
\* waypoint that is not airport-locked, and 1000 ft and 'transit' when all
\* of its waypoints are airport-locked; an append by a click on the dot of
\* an airport waypoint always gives those of the last waypoint.
C30_append_inherits_after_first ==
    [][(appended_unlocked("append") =>
           IF npts(waypoints) > 0
           THEN inherits(waypoints', waypoints[Len(waypoints)])
           ELSE inherits(waypoints', [alt |-> first_alt, legtype |-> "transit"]))
       /\ (appended_unlocked("append_dest") =>
              inherits(waypoints', waypoints[Len(waypoints)]))]_vars

\* C30 witness: a waypoint appended after the airport CRAN alone, away
\* from every airport: it is at 1000 ft, CRAN at 358 ft
C30_witness ==
    /\ ev.op = "append"
    /\ ~ev.raised
    /\ Len(waypoints) = 2
    /\ waypoints[1].name = "CRAN"
    /\ waypoints[1].alt = 358
    /\ airport_near(waypoints[2].lon, waypoints[2].lat) = None
    /\ waypoints[2].alt = first_alt

====
